---- MODULE Spec2Model ----
(***************************************************************************)
(* Model of hotel_reservation.py: the HotelSystem inventory (self.rooms,   *)
(* self.last_booked_ids) and its operations book_rooms, reset and          *)
(* generate_random.  Rooms are referred to by their position in self.rooms *)
(* (the identity of the Room object); every list of the code that holds    *)
(* Room references is a sequence of such positions.                        *)
(***************************************************************************)
EXTENDS Integers, Sequences, FiniteSets, TLC

VARIABLES
    rooms,            \* self.rooms: sequence of Room records
    last_booked_ids,  \* self.last_booked_ids: sequence of room numbers
    op,               \* the operation that ran last
    arg,              \* the n given to the last book_rooms call
    outcome,          \* which message the last book_rooms call printed
    min_cost,         \* the "Travel Cost Metric" it printed
    cross_floor,      \* whether it printed "Optimizing across floors"
    best_set          \* the rooms it chose (positions in self.rooms)

vars == <<rooms, last_booked_ids, op, arg, outcome, min_cost, cross_floor, best_set>>

(***************************************************************************)
(* Layout.  The program builds 10 floors of 10 rooms, the top floor with   *)
(* 7; the model keeps the shape (every floor full width, the top floor     *)
(* shorter) at a size TLC can enumerate every occupancy of.                *)
(***************************************************************************)
NumFloors == 2
RoomsPerFloor == 5
TopFloorRooms == 3

\* The policy cap of book_rooms: 1 <= n <= 5.
MaxRooms == 5

\* The values of n the menu passes to book_rooms: below, inside and above 1..5.
BookArgs == 0 .. (MaxRooms + 1)

\* Room.__init__
Room(floor, index) ==
    [floor |-> floor,
     index |-> index,
     is_booked |-> FALSE,
     number |-> IF floor < 10 THEN (floor * 100) + (index + 1)
                              ELSE 1000 + (index + 1)]

\* count = 7 if f == 10 else 10
FloorCount(f) == IF f = NumFloors THEN TopFloorRooms ELSE RoomsPerFloor

\* HotelSystem._init_hotel: floors ascending, indices ascending within a floor.
InitHotel ==
    LET Build[f \in 0 .. NumFloors] ==
            IF f = 0 THEN << >>
            ELSE Build[f - 1] \o [i \in 1 .. FloorCount(f) |-> Room(f, i - 1)]
    IN  Build[NumFloors]

\* float('inf'): larger than every cost the searches compute.
Infinity == 2 * NumFloors + RoomsPerFloor + 1

\* available = [r for r in self.rooms if not r.is_booked]
Available(rs) ==
    LET A[i \in 0 .. Len(rs)] ==
            IF i = 0 THEN << >>
            ELSE IF rs[i].is_booked THEN A[i - 1] ELSE Append(A[i - 1], i)
    IN  A[Len(rs)]

\* The floors dict of book_rooms: keys in insertion order, each value the
\* floor's available rooms in the order of `available`.
GroupByFloor(rs, available) ==
    LET G[i \in 0 .. Len(available)] ==
            IF i = 0 THEN [keys |-> << >>, val |-> << >>]
            ELSE LET d == G[i - 1]
                     r == available[i]
                     f == rs[r].floor
                     k == {j \in 1 .. Len(d.keys) : d.keys[j] = f}
                 IN  IF k = {}
                     THEN [keys |-> Append(d.keys, f),
                           val |-> Append(d.val, <<r>>)]
                     ELSE [keys |-> d.keys,
                           val |-> [j \in 1 .. Len(d.val) |->
                                      IF j \in k THEN Append(d.val[j], r)
                                                 ELSE d.val[j]]]
    IN  G[Len(available)]

\* list.sort / sorted with a key: a stable sort (equal keys keep their order).
\* key[r] is the value of the key lambda on room r.
SortByKey(s, key) ==
    LET Insert(t, x) ==
            LET k == Cardinality({j \in 1 .. Len(t) : key[t[j]] <= key[x]})
            IN  SubSeq(t, 1, k) \o <<x>> \o SubSeq(t, k + 1, Len(t))
        S[i \in 0 .. Len(s)] ==
            IF i = 0 THEN << >> ELSE Insert(S[i - 1], s[i])
    IN  S[Len(s)]

SeqMax(s) == CHOOSE x \in {s[i] : i \in 1 .. Len(s)} :
                 \A i \in 1 .. Len(s) : s[i] <= x
SeqMin(s) == CHOOSE x \in {s[i] : i \in 1 .. Len(s)} :
                 \A i \in 1 .. Len(s) : x <= s[i]

\* Mutant: the upper limit of the range check is missing.
ValidCountNoCap(n) == 1 <= n

\* 1 <= n <= 5
ValidCount(n) == 1 <= n /\ n <= MaxRooms

\* len(available) < n
NotEnough(available, n) == Len(available) < n

\* Mutant: a floor with exactly n available rooms is skipped.
FloorQualifiesStrict(floor_rooms, n) == Len(floor_rooms) > n

\* if len(floor_rooms) >= n
FloorQualifies(floor_rooms, n) == Len(floor_rooms) >= n

\* Mutant: range(len - n), the last window is never looked at.
WindowStartsShort(len, n) == [i \in 1 .. (len - n) |-> i - 1]

\* range(len(...) - n + 1): the start offsets of the sliding window
WindowStarts(len, n) == [i \in 1 .. (len - n + 1) |-> i - 1]

\* Mutant: the cost counts the rooms of the span instead of the steps.
SameFloorCostCountsRooms(rs, subset) ==
    rs[subset[Len(subset)]].index - rs[subset[1]].index + 1

\* subset[-1].index - subset[0].index
SameFloorCost(rs, subset) == rs[subset[Len(subset)]].index - rs[subset[1]].index

\* (r.floor * 2) + r.index
ProximityScore(rs, r) == (rs[r].floor * 2) + rs[r].index

\* Mutant: a floor of vertical travel costs 1 instead of 2.
CrossFloorCostFlat(rs, subset) ==
    LET floors == [i \in 1 .. Len(subset) |-> rs[subset[i]].floor]
        indexes == [i \in 1 .. Len(subset) |-> rs[subset[i]].index]
    IN  (SeqMax(floors) - SeqMin(floors)) + (SeqMax(indexes) - SeqMin(indexes))

\* v_cost + h_cost of a window of the proximity-sorted list
CrossFloorCost(rs, subset) ==
    LET floors == [i \in 1 .. Len(subset) |-> rs[subset[i]].floor]
        indexes == [i \in 1 .. Len(subset) |-> rs[subset[i]].index]
        v_cost == (SeqMax(floors) - SeqMin(floors)) * 2
        h_cost == (SeqMax(indexes) - SeqMin(indexes)) * 1
    IN  v_cost + h_cost

\* Mutant: cost <= min_cost, the last minimum wins.
SameFloorStepLastWins(acc, subset, cost) ==
    IF cost <= acc.min_cost
    THEN [min_cost |-> cost, best_set |-> subset, found_same_floor |-> TRUE]
    ELSE acc

\* if cost < min_cost: min_cost = cost; best_set = subset; found_same_floor = True
SameFloorStep(acc, subset, cost) ==
    IF cost < acc.min_cost
    THEN [min_cost |-> cost, best_set |-> subset, found_same_floor |-> TRUE]
    ELSE acc

\* Mutant: total_cost <= min_cost, the last minimum wins.
CrossFloorStepLastWins(acc, subset, total_cost) ==
    IF total_cost <= acc.min_cost
    THEN [acc EXCEPT !.min_cost = total_cost, !.best_set = subset]
    ELSE acc

\* if total_cost < min_cost: min_cost = total_cost; best_set = subset
CrossFloorStep(acc, subset, total_cost) ==
    IF total_cost < acc.min_cost
    THEN [acc EXCEPT !.min_cost = total_cost, !.best_set = subset]
    ELSE acc

\* The inner loop of priority 1 over one floor's rooms.
ScanFloor(rs, floor_rooms, n, acc0) ==
    IF ~FloorQualifies(floor_rooms, n) THEN acc0
    ELSE LET sorted == SortByKey(floor_rooms, [r \in 1 .. Len(rs) |-> rs[r].index])
             starts == WindowStarts(Len(sorted), n)
             W[k \in 0 .. Len(starts)] ==
                 IF k = 0 THEN acc0
                 ELSE LET i == starts[k]
                          subset == SubSeq(sorted, i + 1, i + n)
                      IN  SameFloorStep(W[k - 1], subset, SameFloorCost(rs, subset))
         IN  W[Len(starts)]

\* PRIORITY 1: for f, floor_rooms in floors.items()
SameFloorSearch(rs, available, n) ==
    LET floors == GroupByFloor(rs, available)
        F[k \in 0 .. Len(floors.keys)] ==
            IF k = 0
            THEN [min_cost |-> Infinity, best_set |-> << >>, found_same_floor |-> FALSE]
            ELSE ScanFloor(rs, floors.val[k], n, F[k - 1])
    IN  F[Len(floors.keys)]

\* PRIORITY 2: the sliding window over the proximity-sorted list
CrossFloorSearch(rs, available, n, acc0) ==
    LET sorted_available == SortByKey(available, [r \in 1 .. Len(rs) |-> ProximityScore(rs, r)])
        starts == WindowStarts(Len(sorted_available), n)
        W[k \in 0 .. Len(starts)] ==
            IF k = 0 THEN [acc0 EXCEPT !.min_cost = Infinity]
            ELSE LET i == starts[k]
                     subset == SubSeq(sorted_available, i + 1, i + n)
                 IN  CrossFloorStep(W[k - 1], subset, CrossFloorCost(rs, subset))
    IN  W[Len(starts)]

\* Mutant: the highlight record is cleared before the early return.
RejectedClearsRecord(rs, last, kind) ==
    [rooms |-> rs, last_booked_ids |-> << >>, outcome |-> kind,
     min_cost |-> 0, cross_floor |-> FALSE, best_set |-> << >>]

\* The two early returns of book_rooms: a message and nothing else.
Rejected(rs, last, kind) ==
    [rooms |-> rs, last_booked_ids |-> last, outcome |-> kind,
     min_cost |-> 0, cross_floor |-> FALSE, best_set |-> << >>]

\* Mutant: self.last_booked_ids = [] is missing, the record keeps growing.
CommitKeepsRecord(rs, last, acc) ==
    IF acc.best_set # << >>
    THEN [rooms |-> [i \in 1 .. Len(rs) |->
                        IF \E k \in 1 .. Len(acc.best_set) : acc.best_set[k] = i
                        THEN [rs[i] EXCEPT !.is_booked = TRUE] ELSE rs[i]],
          last_booked_ids |->
              last \o [k \in 1 .. Len(acc.best_set) |-> rs[acc.best_set[k]].number],
          outcome |-> "booked",
          min_cost |-> acc.min_cost,
          cross_floor |-> ~acc.found_same_floor,
          best_set |-> acc.best_set]
    ELSE [rooms |-> rs, last_booked_ids |-> last, outcome |-> "no_arrangement",
          min_cost |-> 0, cross_floor |-> ~acc.found_same_floor, best_set |-> << >>]

\* APPLY BOOKING
Commit(rs, last, acc) ==
    IF acc.best_set # << >>
    THEN [rooms |-> [i \in 1 .. Len(rs) |->
                        IF \E k \in 1 .. Len(acc.best_set) : acc.best_set[k] = i
                        THEN [rs[i] EXCEPT !.is_booked = TRUE] ELSE rs[i]],
          last_booked_ids |-> [k \in 1 .. Len(acc.best_set) |-> rs[acc.best_set[k]].number],
          outcome |-> "booked",
          min_cost |-> acc.min_cost,
          cross_floor |-> ~acc.found_same_floor,
          best_set |-> acc.best_set]
    ELSE [rooms |-> rs, last_booked_ids |-> last, outcome |-> "no_arrangement",
          min_cost |-> 0, cross_floor |-> ~acc.found_same_floor, best_set |-> << >>]

\* HotelSystem.book_rooms
book_rooms(rs, last, n) ==
    IF ~ValidCount(n) THEN Rejected(rs, last, "invalid_count")
    ELSE LET available == Available(rs)
         IN  IF NotEnough(available, n) THEN Rejected(rs, last, "not_enough")
             ELSE LET same == SameFloorSearch(rs, available, n)
                      acc == IF ~same.found_same_floor
                             THEN CrossFloorSearch(rs, available, n, same)
                             ELSE same
                  IN  Commit(rs, last, acc)

Init ==
    /\ rooms = InitHotel
    /\ last_booked_ids = << >>
    /\ op = "init"
    /\ arg = 0
    /\ outcome = "none"
    /\ min_cost = 0
    /\ cross_floor = FALSE
    /\ best_set = << >>

\* Menu choice 1
BookRooms ==
    \E n \in BookArgs :
        LET res == book_rooms(rooms, last_booked_ids, n)
        IN  /\ rooms' = res.rooms
            /\ last_booked_ids' = res.last_booked_ids
            /\ op' = "book_rooms"
            /\ arg' = n
            /\ outcome' = res.outcome
            /\ min_cost' = res.min_cost
            /\ cross_floor' = res.cross_floor
            /\ best_set' = res.best_set

\* Menu choice 3: HotelSystem.reset
Reset ==
    /\ rooms' = InitHotel
    /\ last_booked_ids' = << >>
    /\ op' = "reset"
    /\ arg' = 0
    /\ outcome' = "none"
    /\ min_cost' = 0
    /\ cross_floor' = FALSE
    /\ best_set' = << >>

\* Mutant: self.last_booked_ids = [] is missing from generate_random.
GenerateRandomKeepsRecord ==
    \E S \in SUBSET (1 .. Len(rooms)) :
        /\ rooms' = [i \in 1 .. Len(rooms) |-> [rooms[i] EXCEPT !.is_booked = (i \in S)]]
        /\ last_booked_ids' = last_booked_ids
        /\ op' = "generate_random"
        /\ arg' = 0
        /\ outcome' = "none"
        /\ min_cost' = 0
        /\ cross_floor' = FALSE
        /\ best_set' = << >>

\* Menu choice 2: HotelSystem.generate_random; each flag is drawn independently.
GenerateRandom ==
    \E S \in SUBSET (1 .. Len(rooms)) :
        /\ rooms' = [i \in 1 .. Len(rooms) |-> [rooms[i] EXCEPT !.is_booked = (i \in S)]]
        /\ last_booked_ids' = << >>
        /\ op' = "generate_random"
        /\ arg' = 0
        /\ outcome' = "none"
        /\ min_cost' = 0
        /\ cross_floor' = FALSE
        /\ best_set' = << >>

Next == BookRooms \/ Reset \/ GenerateRandom

Spec == Init /\ [][Next]_vars

(***************************************************************************)
(* book_rooms as a function of the occupancy: the initial states are the   *)
(* states generate_random leaves (any combination of flags, an empty       *)
(* record), and book_rooms is applied from each of them, repeatedly.       *)
(***************************************************************************)
InitAnyOccupancy ==
    /\ \E S \in SUBSET (1 .. Len(InitHotel)) :
           rooms = [i \in 1 .. Len(InitHotel) |-> [InitHotel[i] EXCEPT !.is_booked = (i \in S)]]
    /\ last_booked_ids = << >>
    /\ op = "generate_random"
    /\ arg = 0
    /\ outcome = "none"
    /\ min_cost = 0
    /\ cross_floor = FALSE
    /\ best_set = << >>

NextBook == BookRooms

SpecBook == InitAnyOccupancy /\ [][NextBook]_vars

(***************************************************************************)
(* Vocabulary of the properties, stated over an inventory rs without the   *)
(* operators of the searches.                                              *)
(***************************************************************************)
SetOf(s) == {s[k] : k \in 1 .. Len(s)}
AvailSet(rs) == {i \in 1 .. Len(rs) : ~rs[i].is_booked}
BookedSet(rs) == {i \in 1 .. Len(rs) : rs[i].is_booked}
FloorNumbers(rs) == {rs[i].floor : i \in 1 .. Len(rs)}
AvailOnFloor(rs, f) == {i \in AvailSet(rs) : rs[i].floor = f}
MaxOf(S) == CHOOSE x \in S : \A y \in S : y <= x
MinOf(S) == CHOOSE x \in S : \A y \in S : x <= y
IndexesOf(rs, T) == {rs[r].index : r \in T}
FloorsOf(rs, T) == {rs[r].floor : r \in T}
Spread(rs, T) == MaxOf(IndexesOf(rs, T)) - MinOf(IndexesOf(rs, T))
BoundingBox(rs, T) ==
    2 * (MaxOf(FloorsOf(rs, T)) - MinOf(FloorsOf(rs, T))) + Spread(rs, T)
Score(rs, r) == rs[r].floor * 2 + rs[r].index
\* The place of an available room in ascending score order, ties in inventory order.
Rank(rs, r) ==
    Cardinality({q \in AvailSet(rs) :
                    \/ Score(rs, q) < Score(rs, r)
                    \/ Score(rs, q) = Score(rs, r) /\ q < r})
\* The j-th window (from 0) of n rooms consecutive in that order.
ScoreWindow(rs, j, n) == {r \in AvailSet(rs) : Rank(rs, r) \in j .. (j + n - 1)}
ScoreWindowStarts(rs, n) == 0 .. (Cardinality(AvailSet(rs)) - n)
\* The sets of n available rooms of floor f with no available room between them.
FloorWindows(rs, f, n) ==
    {T \in SUBSET AvailOnFloor(rs, f) :
        /\ Cardinality(T) = n
        /\ \A r \in AvailOnFloor(rs, f) \ T :
              \/ rs[r].index < MinOf(IndexesOf(rs, T))
              \/ rs[r].index > MaxOf(IndexesOf(rs, T))}
\* Floor f has n available rooms at consecutive indices.
HasGaplessRun(rs, f, n) ==
    \E T \in SUBSET AvailOnFloor(rs, f) : Cardinality(T) = n /\ Spread(rs, T) = n - 1

\* C1: a failed book_rooms(n) (n < 1, n > 5, or fewer than n rooms unbooked)
\* leaves every booked flag and the most-recent-booking record as they were,
\* from every reachable state, so also when the failing call is repeated.
C1_FailedCallChangesNothing ==
    [][(op' = "book_rooms"
        /\ (arg' < 1 \/ arg' > 5 \/ Cardinality(AvailSet(rooms)) < arg'))
       => (/\ outcome' \in {"invalid_count", "not_enough"}
           /\ rooms' = rooms
           /\ last_booked_ids' = last_booked_ids)]_vars

\* A call failed although the record of an earlier booking was not empty.
C1_Witness ==
    /\ op = "book_rooms"
    /\ outcome = "not_enough"
    /\ last_booked_ids # << >>
    /\ BookedSet(rooms) # {}

\* C2 as stated: with n rooms available at consecutive indices of some floor,
\* book_rooms(n) takes the same-floor path and reports cost 0; with floor 1
\* fully available and n = 3 it books indices 0, 1, 2 of floor 1 at cost 0.
C2_AsStated ==
    [][(op' = "book_rooms" /\ arg' \in 1 .. 5
        /\ \E f \in FloorNumbers(rooms) : HasGaplessRun(rooms, f, arg'))
       => (/\ outcome' = "booked"
           /\ ~cross_floor'
           /\ min_cost' = 0
           /\ (arg' = 3 /\ Cardinality(AvailOnFloor(rooms, 1)) = RoomsPerFloor)
                 => (/\ FloorsOf(rooms, SetOf(best_set')) = {1}
                     /\ IndexesOf(rooms, SetOf(best_set')) = {0, 1, 2}))]_vars

\* C2 amended: in those occupancies book_rooms(n) takes the same-floor path and
\* reports cost n - 1 (0 only for n = 1); with floor 1 fully available and
\* n = 3 it books indices 0, 1, 2 of floor 1 at cost 2.
C2_GaplessRunCostsNMinusOne ==
    [][(op' = "book_rooms" /\ arg' \in 1 .. 5
        /\ \E f \in FloorNumbers(rooms) : HasGaplessRun(rooms, f, arg'))
       => (/\ outcome' = "booked"
           /\ ~cross_floor'
           /\ min_cost' = arg' - 1
           /\ (arg' = 3 /\ Cardinality(AvailOnFloor(rooms, 1)) = RoomsPerFloor)
                 => (/\ FloorsOf(rooms, SetOf(best_set')) = {1}
                     /\ IndexesOf(rooms, SetOf(best_set')) = {0, 1, 2}
                     /\ min_cost' = 2))]_vars

\* Floor 1 was fully available and book_rooms(3) took its first three rooms.
C2_Witness ==
    /\ op = "book_rooms" /\ arg = 3 /\ outcome = "booked" /\ ~cross_floor
    /\ best_set = <<1, 2, 3>>
    /\ min_cost = 2
    /\ AvailOnFloor(rooms, 1) = 4 .. RoomsPerFloor

\* C3 as stated: book_rooms(6) with exactly 5 rooms unbooked fails with the
\* "Not enough rooms available" error.
C3_AsStated ==
    [][(op' = "book_rooms" /\ arg' = 6 /\ Cardinality(AvailSet(rooms)) = 5)
       => outcome' = "not_enough"]_vars

\* C3 amended: book_rooms(6) with exactly 5 rooms unbooked fails with the
\* invalid-count error ("You can only book 1 to 5 rooms").
C3_SixIsInvalidCount ==
    [][(op' = "book_rooms" /\ arg' = 6 /\ Cardinality(AvailSet(rooms)) = 5)
       => outcome' = "invalid_count"]_vars

C3_Witness ==
    /\ op = "book_rooms" /\ arg = 6
    /\ Cardinality(AvailSet(rooms)) = 5
    /\ outcome = "invalid_count"

\* C4: a successful book_rooms(n) runs the cross-floor search exactly when no
\* floor has n available rooms; if some floor has n, the chosen rooms share a
\* floor; if none has, the chosen rooms span at least two floors.
C4_CrossFloorOnlyWhenNoFloorQualifies ==
    [][(op' = "book_rooms" /\ outcome' = "booked")
       => LET some == \E f \in FloorNumbers(rooms) :
                          Cardinality(AvailOnFloor(rooms, f)) >= arg'
              chosen == SetOf(best_set')
          IN  /\ cross_floor' <=> ~some
              /\ some => Cardinality(FloorsOf(rooms, chosen)) = 1
              /\ ~some => Cardinality(FloorsOf(rooms, chosen)) >= 2]_vars

\* Two rooms of one floor were booked at spread 4 while a room right above or
\* below one of them, a pair of bounding-box cost 2, stayed available.
C4_Witness ==
    /\ op = "book_rooms" /\ arg = 2 /\ outcome = "booked" /\ ~cross_floor
    /\ min_cost = 4
    /\ \E r \in AvailSet(rooms) :
          /\ rooms[r].floor \notin FloorsOf(rooms, SetOf(best_set))
          /\ rooms[r].index \in IndexesOf(rooms, SetOf(best_set))

\* C5: with n in 1..5 and at least n rooms unbooked, book_rooms(n) succeeds
\* (never "could not find a suitable room arrangement") and books exactly n
\* distinct rooms, each unbooked before the call.
C5_EnoughRoomsAlwaysBooks ==
    [][(op' = "book_rooms" /\ arg' \in 1 .. 5
        /\ Cardinality(AvailSet(rooms)) >= arg')
       => (/\ outcome' = "booked"
           /\ Len(best_set') = arg'
           /\ Cardinality(SetOf(best_set')) = arg'
           /\ SetOf(best_set') \subseteq AvailSet(rooms)
           /\ SetOf(best_set') \subseteq BookedSet(rooms'))]_vars

\* The last 5 available rooms, spread over two floors, were all booked.
C5_Witness ==
    /\ op = "book_rooms" /\ arg = 5 /\ outcome = "booked" /\ cross_floor
    /\ AvailSet(rooms) = {}

\* C6 as stated: with exactly 2 available rooms on every floor, book_rooms(3)
\* takes the cross-floor path and books the 3 available rooms of lowest score,
\* reporting their bounding-box cost.
C6_AsStated ==
    [][(op' = "book_rooms" /\ arg' = 3
        /\ \A f \in FloorNumbers(rooms) : Cardinality(AvailOnFloor(rooms, f)) = 2)
       => LET chosen == SetOf(best_set')
          IN  /\ outcome' = "booked" /\ cross_floor'
              /\ Cardinality(chosen) = 3
              /\ \A r \in chosen : \A q \in AvailSet(rooms) \ chosen :
                     Score(rooms, r) <= Score(rooms, q)
              /\ min_cost' = BoundingBox(rooms, chosen)]_vars

\* C6 amended: in those occupancies book_rooms(3) takes the cross-floor path
\* and books 3 available rooms consecutive in ascending score order whose
\* bounding-box cost is the reported cost; they are the 3 rooms of lowest
\* score unless a later window costs strictly less than those 3.
C6_LowestThreeUnlessCheaperWindow ==
    [][(op' = "book_rooms" /\ arg' = 3
        /\ \A f \in FloorNumbers(rooms) : Cardinality(AvailOnFloor(rooms, f)) = 2)
       => LET chosen == SetOf(best_set')
              lowest == ScoreWindow(rooms, 0, 3)
          IN  /\ outcome' = "booked" /\ cross_floor'
              /\ \E j \in ScoreWindowStarts(rooms, 3) : chosen = ScoreWindow(rooms, j, 3)
              /\ min_cost' = BoundingBox(rooms, chosen)
              /\ \/ chosen = lowest
                 \/ BoundingBox(rooms, chosen) < BoundingBox(rooms, lowest)]_vars

\* Every floor had 2 available rooms, and the room left over by book_rooms(3)
\* has a lower score than each of the 3 rooms booked.
C6_Witness ==
    /\ op = "book_rooms" /\ arg = 3 /\ outcome = "booked" /\ cross_floor
    /\ \A f \in FloorNumbers(rooms) :
          Cardinality({r \in AvailSet(rooms) \cup SetOf(best_set) : rooms[r].floor = f}) = 2
    /\ \E q \in AvailSet(rooms) : \A r \in SetOf(best_set) :
          Score(rooms, q) < Score(rooms, r)

\* C7: when some floor has n available rooms, the rooms booked lie on one
\* floor, their spread is the reported cost and is no greater than that of any
\* n available rooms of a single floor, and every other window of n available
\* rooms of a floor with the same spread is on a higher floor, or on the same
\* floor further from the lift.
C7_SameFloorFirstMinimum ==
    [][(op' = "book_rooms" /\ arg' \in 1 .. 5
        /\ \E f \in FloorNumbers(rooms) : Cardinality(AvailOnFloor(rooms, f)) >= arg')
       => LET chosen == SetOf(best_set')
              n == arg'
          IN  /\ outcome' = "booked"
              /\ \E f \in FloorNumbers(rooms) : chosen \in FloorWindows(rooms, f, n)
              /\ min_cost' = Spread(rooms, chosen)
              /\ \A f \in FloorNumbers(rooms) :
                    \A T \in SUBSET AvailOnFloor(rooms, f) :
                        Cardinality(T) = n => Spread(rooms, chosen) <= Spread(rooms, T)
              /\ \A f \in FloorNumbers(rooms) :
                    \A T \in FloorWindows(rooms, f, n) \ {chosen} :
                        Spread(rooms, T) = Spread(rooms, chosen)
                        => \/ f > MinOf(FloorsOf(rooms, chosen))
                           \/ /\ f = MinOf(FloorsOf(rooms, chosen))
                              /\ MinOf(IndexesOf(rooms, T))
                                    > MinOf(IndexesOf(rooms, chosen))]_vars

\* Two rooms two indices apart were booked although a window of the same
\* spread existed further along the same floor.
C7_Witness ==
    /\ op = "book_rooms" /\ arg = 2 /\ outcome = "booked" /\ ~cross_floor
    /\ min_cost = 2
    /\ \E r \in AvailSet(rooms) :
          /\ rooms[r].floor \in FloorsOf(rooms, SetOf(best_set))
          /\ rooms[r].index = MaxOf(IndexesOf(rooms, SetOf(best_set))) + 2
          /\ \A q \in 1 .. Len(rooms) :
                (rooms[q].floor = rooms[r].floor /\ rooms[q].index = rooms[r].index - 1)
                => rooms[q].is_booked

\* C8: on the cross-floor path the reported cost is the bounding-box cost of
\* the rooms booked, these are a window of n rooms consecutive in ascending
\* score order (ties in inventory order), no such window costs less, and every
\* earlier window costs strictly more.
C8_CrossFloorFirstMinimumWindow ==
    [][(op' = "book_rooms" /\ outcome' = "booked" /\ cross_floor')
       => LET chosen == SetOf(best_set')
              n == arg'
          IN  /\ min_cost' = BoundingBox(rooms, chosen)
              /\ \E j \in ScoreWindowStarts(rooms, n) :
                    /\ chosen = ScoreWindow(rooms, j, n)
                    /\ \A i \in ScoreWindowStarts(rooms, n) :
                          /\ BoundingBox(rooms, ScoreWindow(rooms, i, n))
                                >= BoundingBox(rooms, chosen)
                          /\ i < j => BoundingBox(rooms, ScoreWindow(rooms, i, n))
                                         > BoundingBox(rooms, chosen)]_vars

\* A cross-floor booking of 4 rooms that is not the first window: a room of
\* lower score than each of them stayed available.
C8_Witness ==
    /\ op = "book_rooms" /\ arg = 4 /\ outcome = "booked" /\ cross_floor
    /\ min_cost = BoundingBox(rooms, SetOf(best_set))
    /\ \E q \in AvailSet(rooms) : \A r \in SetOf(best_set) :
          Score(rooms, q) < Score(rooms, r)

\* C9: a successful book_rooms(n) changes only the chosen rooms: booked rooms
\* stay booked, rooms outside the chosen set are untouched, the chosen rooms
\* change in their booked flag alone, n more rooms are booked, and the record
\* becomes the numbers of the n chosen rooms.
C9_SuccessChangesOnlyChosenRooms ==
    [][(op' = "book_rooms" /\ outcome' = "booked")
       => LET chosen == SetOf(best_set')
          IN  /\ Len(rooms') = Len(rooms)
              /\ BookedSet(rooms) \subseteq BookedSet(rooms')
              /\ \A i \in (1 .. Len(rooms)) \ chosen : rooms'[i] = rooms[i]
              /\ \A i \in chosen : rooms'[i] = [rooms[i] EXCEPT !.is_booked = TRUE]
              /\ Cardinality(BookedSet(rooms')) = Cardinality(BookedSet(rooms)) + arg'
              /\ Len(last_booked_ids') = arg'
              /\ SetOf(last_booked_ids') = {rooms[r].number : r \in chosen}
              /\ Cardinality(SetOf(last_booked_ids')) = arg']_vars

\* A booking made while other rooms were already booked.
C9_Witness ==
    /\ op = "book_rooms" /\ outcome = "booked" /\ arg = 2
    /\ Len(last_booked_ids) = 2
    /\ Cardinality(BookedSet(rooms)) > 2
    /\ AvailSet(rooms) # {}

\* C10: in every state reachable by book_rooms, reset and generate_random,
\* every number of the record is the number of a booked room, the record holds
\* at most 5 numbers, all distinct, and it is empty right after reset and
\* right after generate_random.
C10_RecordOnlyNamesBookedRooms ==
    /\ \A k \in 1 .. Len(last_booked_ids) :
          \E i \in BookedSet(rooms) : rooms[i].number = last_booked_ids[k]
    /\ Len(last_booked_ids) <= 5
    /\ Cardinality(SetOf(last_booked_ids)) = Len(last_booked_ids)
    /\ op \in {"reset", "generate_random"} => last_booked_ids = << >>

\* A record of 5 rooms, booked after a random occupancy had been drawn in
\* which other rooms were booked already.
C10_Witness ==
    /\ op = "book_rooms" /\ outcome = "booked"
    /\ Len(last_booked_ids) = 5
    /\ Cardinality(BookedSet(rooms)) > 5

====
